---- MODULE Spec2Model ----
(***************************************************************************)
(* TemplateNest (src/src/lib.rs): the template indexer `index` and the     *)
(* recursive renderer `render`.                                            *)
(*                                                                         *)
(* A string is a sequence of one-character strings; byte offsets are the   *)
(* 0-based offsets of the source (the range a..b of the source is          *)
(* SubSeq(s, a + 1, b) here).  A Filling is a record tagged "Text", "List" *)
(* or "Template"; a template hash is a function from keys (strings) to     *)
(* Fillings.  The disk is a function from the paths of the files that      *)
(* exist to [readable, contents].                                          *)
(***************************************************************************)
EXTENDS Integers, Sequences, FiniteSets, TLC

VARIABLES nest, disk, seen, last

vars == <<nest, disk, seen, last>>

(***************************************************************************)
(* Bounds of the model.                                                    *)
(***************************************************************************)
\* usize is UsizeBits wide: 0 - 1 wraps to 2^UsizeBits - 1 without overflow checks.
UsizeBits == 16
\* Text values are up to MaxPad characters shorter and longer than a token.
MaxPad == 1
\* Lists hold up to MaxListLen items.
MaxListLen == 2
\* The template texts given to index alone are made of up to MaxChunks chunks.
MaxChunks == 3

UsizeMod == 2 ^ UsizeBits
IsizeMax == 2 ^ (UsizeBits - 1) - 1

(***************************************************************************)
(* Strings.                                                                *)
(***************************************************************************)
NL == "\n"
SP == " "

\* char::is_whitespace, over the characters of the model.
IsWhitespace(c) == c \in {SP, NL}

\* s[a..b] of the source (0-based, b exclusive).
Slice(s, a, b) == SubSeq(s, a + 1, b)

\* str::trim_end
TrimEndLen(s) ==
    IF \A k \in 1..Len(s) : IsWhitespace(s[k]) THEN 0
    ELSE CHOOSE n \in 1..Len(s) :
            /\ ~IsWhitespace(s[n])
            /\ \A k \in (n + 1)..Len(s) : IsWhitespace(s[k])

TrimEnd(s) == SubSeq(s, 1, TrimEndLen(s))

\* str::trim_start
TrimStart(s) ==
    IF \A k \in 1..Len(s) : IsWhitespace(s[k]) THEN <<>>
    ELSE SubSeq(s,
                CHOOSE n \in 1..Len(s) :
                    /\ ~IsWhitespace(s[n])
                    /\ \A k \in 1..(n - 1) : IsWhitespace(s[k]),
                Len(s))

\* str::trim
Trim(s) == TrimStart(TrimEnd(s))

\* " ".repeat(n)
Spaces(n) == [k \in 1..n |-> SP]

RECURSIVE Concat(_)
Concat(ss) == IF ss = <<>> THEN <<>> ELSE Head(ss) \o Concat(Tail(ss))

\* str::replace('\n', to)
ReplaceNewlines(s, to) == Concat([k \in 1..Len(s) |-> IF s[k] = NL THEN to ELSE <<s[k]>>])

(***************************************************************************)
(* Results: Ok(value), Err(TemplateNestError) or a panic.                  *)
(***************************************************************************)
Ok(s) == [kind |-> "Ok", s |-> s]
Err(e) == [kind |-> "Err", err |-> e]
Panic == [kind |-> "Panic"]

\* String::replace_range(a..b, with): panics when the range is not inside s.
replace_range(s, a, b, with) ==
    IF a <= b /\ b <= Len(s)
    THEN Ok(Slice(s, 0, a) \o with \o Slice(s, b, Len(s)))
    ELSE Panic

\* The `?` operator on a Result: an Err returns early from the caller.
QuestionSwallow(r) ==
    IF r.kind = "Err" THEN [early |-> FALSE, value |-> <<>>]
    ELSE IF r.kind = "Ok" THEN [early |-> FALSE, value |-> r.s]
    ELSE [early |-> TRUE, value |-> r]

Question(r) ==
    IF r.kind = "Ok" THEN [early |-> FALSE, value |-> r.s]
    ELSE [early |-> TRUE, value |-> r]

(***************************************************************************)
(* Fillings.                                                               *)
(***************************************************************************)
Text(s) == [tag |-> "Text", text |-> s]
List(l) == [tag |-> "List", list |-> l]
Template(m) == [tag |-> "Template", map |-> m]

(***************************************************************************)
(* The file system.                                                        *)
(***************************************************************************)
\* self.directory.join(format!("{}.{}", template_name, self.extension))
FilePath(n, template_name) ==
    n.directory \o <<"/">> \o template_name \o <<".">> \o n.extension

is_file(d, file) == file \in DOMAIN d

\* fs::read_to_string
ReadStale(d, file) ==
    IF file \in DOMAIN seen THEN Ok(seen[file])
    ELSE IF d[file].readable THEN Ok(d[file].contents) ELSE Err("TemplateFileReadError")

read_to_string(d, file) ==
    IF d[file].readable THEN Ok(d[file].contents) ELSE Err("TemplateFileReadError")

(***************************************************************************)
(* index: the regex scan.                                                  *)
(***************************************************************************)
StartsAt(s, i, pat) == i + Len(pat) <= Len(s) /\ Slice(s, i, i + Len(pat)) = pat

\* The least element of a set of offsets, -1 for the empty set.
Least(S) == IF S = {} THEN -1 ELSE CHOOSE i \in S : \A j \in S : i <= j

\* The greatest element of a set of offsets, `none` for the empty set.
GreatestOr(S, none) == IF S = {} THEN none ELSE CHOOSE i \in S : \A j \in S : j <= i

PlusFrom(j, len) == IF j = -1 THEN -1 ELSE j + len

\* The end of the greedy match `<start>(.+)<end>`: the longest interior.
MatchEndGreedy(n, s, i) ==
    IF ~StartsAt(s, i, n.delimiters[1]) THEN -1
    ELSE PlusFrom(GreatestOr({j \in (i + Len(n.delimiters[1]) + 1)..Len(s) :
                                 /\ StartsAt(s, j, n.delimiters[2])
                                 /\ \A k \in (i + Len(n.delimiters[1]))..(j - 1) : s[k + 1] # NL},
                             -1),
                  Len(n.delimiters[2]))

\* The end of the match of `<start>(.+?)<end>` that starts at offset i, or -1:
\* the interior is the shortest run of one or more characters other than
\* newline that is followed by the end delimiter.
MatchEnd(n, s, i) ==
    IF ~StartsAt(s, i, n.delimiters[1]) THEN -1
    ELSE PlusFrom(Least({j \in (i + Len(n.delimiters[1]) + 1)..Len(s) :
                            /\ StartsAt(s, j, n.delimiters[2])
                            /\ \A k \in (i + Len(n.delimiters[1]))..(j - 1) : s[k + 1] # NL}),
                  Len(n.delimiters[2]))

\* re.captures_iter(&contents): the leftmost matches, one after the other.
RECURSIVE captures_iter(_, _, _)

Capture(n, s, i, e) ==
    <<[start |-> i, end |-> e,
       group1 |-> Slice(s, i + Len(n.delimiters[1]), e - Len(n.delimiters[2]))]>>
    \o captures_iter(n, s, e)

CapturesAt(n, s, i) == IF i = -1 THEN <<>> ELSE Capture(n, s, i, MatchEnd(n, s, i))

captures_iter(n, s, from) ==
    CapturesAt(n, s, Least({i \in from..Len(s) : MatchEnd(n, s, i) # -1}))

\* The look-behind for token_escape_char.
IsEscaped(n, contents, start_position) ==
    /\ n.token_escape_char # <<>>
    /\ start_position > Len(n.token_escape_char)
    /\ Slice(contents, start_position - Len(n.token_escape_char), start_position)
          = n.token_escape_char

\* contents[..start_position].rfind('\n').unwrap_or(0)
newline_position(contents, start_position) ==
    GreatestOr({k \in 0..(start_position - 1) : contents[k + 1] = NL}, 0)

\* A subtraction in usize: [panic, value].
UsizeSub(raw, overflow_checks) ==
    IF raw >= 0 THEN [panic |-> FALSE, value |-> raw]
    ELSE IF overflow_checks THEN [panic |-> TRUE, value |-> 0]
    ELSE [panic |-> FALSE, value |-> raw + UsizeMod]

\* start_position - newline_position - 1
IndentLevel(n, contents, start_position, overflow_checks) ==
    IF ~n.fixed_indent THEN [panic |-> FALSE, value |-> 0]
    ELSE UsizeSub(start_position - newline_position(contents, start_position) - 1,
                  overflow_checks)

\* The TemplateFileVariable of a token with its indent level.
Token(cap, ind) ==
    [panic |-> ind.panic,
     indent_level |-> ind.value,
     name |-> Trim(cap.group1),
     escaped_token |-> FALSE,
     start_position |-> cap.start,
     end_position |-> cap.end]

\* One iteration of the loop over the captures: the TemplateFileVariable pushed.
Variable(n, contents, cap, overflow_checks) ==
    IF IsEscaped(n, contents, cap.start)
    THEN [panic |-> FALSE,
          indent_level |-> 0,
          name |-> <<>>,
          escaped_token |-> TRUE,
          start_position |-> cap.start - Len(n.token_escape_char),
          end_position |-> cap.start - Len(n.token_escape_char) + Len(n.token_escape_char)]
    ELSE Token(cap, IndentLevel(n, contents, cap.start, overflow_checks))

Variables(n, contents, caps, overflow_checks) ==
    [k \in 1..Len(caps) |-> Variable(n, contents, caps[k], overflow_checks)]

\* The TemplateFileIndex, or the panic of the loop.
FileIndex(contents, variables) ==
    IF \E k \in 1..Len(variables) : variables[k].panic THEN Panic
    ELSE [kind |-> "Ok",
          contents |-> contents,
          variables |-> variables,
          variable_names |-> {variables[k].name :
                                k \in {j \in 1..Len(variables) : ~variables[j].escaped_token}}]

\* The index of a file's contents.
IndexContents(n, contents, overflow_checks) ==
    FileIndex(contents,
              Variables(n, contents, captures_iter(n, contents, 0), overflow_checks))

IndexRead(n, overflow_checks, contents) ==
    IF contents.kind # "Ok" THEN contents
    ELSE IndexContents(n, contents.s, overflow_checks)

IndexFile(n, d, overflow_checks, file) ==
    IF ~is_file(d, file) THEN Err("TemplateFileNotFound")
    ELSE IndexRead(n, overflow_checks, read_to_string(d, file))

\* TemplateNest::index
index(n, d, overflow_checks, template_name) ==
    IndexFile(n, d, overflow_checks, FilePath(n, template_name))

(***************************************************************************)
(* render.                                                                 *)
(***************************************************************************)
\* template_hash.get(self.label), then `if let Filling::Text(name)`.
NameLabelListAsMissing(n, template_hash) ==
    IF n.label \notin DOMAIN template_hash THEN Err("NoNameLabel")
    ELSE IF template_hash[n.label].tag = "Text" THEN Ok(template_hash[n.label].text)
    ELSE IF template_hash[n.label].tag = "List" THEN Err("NoNameLabel")
    ELSE Err("InvalidNameLabel")

NameLabel(n, template_hash) ==
    IF n.label \notin DOMAIN template_hash THEN Err("NoNameLabel")
    ELSE IF template_hash[n.label].tag = "Text" THEN Ok(template_hash[n.label].text)
    ELSE Err("InvalidNameLabel")

\* The check for bad params: some key of the hash is neither a variable of
\* the template file nor the label.
HasBadParamsAlways(n, template_hash, template_index) ==
    \E name \in DOMAIN template_hash :
        name \notin template_index.variable_names /\ name # n.label

HasBadParams(n, template_hash, template_index) ==
    /\ n.die_on_bad_params
    /\ \E name \in DOMAIN template_hash :
          name \notin template_index.variable_names /\ name # n.label

\* template_hash.get(&var.name)
HashGet(template_hash, name) ==
    IF name \in DOMAIN template_hash THEN [found |-> TRUE, value |-> template_hash[name]]
    ELSE [found |-> FALSE]

\* The value of a variable: the entry of the hash, else the engine's
\* default for the name, else none.
DefaultsFirst(n, template_hash, name) ==
    IF name \in DOMAIN n.defaults THEN [found |-> TRUE, value |-> n.defaults[name]]
    ELSE HashGet(template_hash, name)

Lookup(n, template_hash, name) ==
    IF name \in DOMAIN template_hash THEN HashGet(template_hash, name)
    ELSE IF name \in DOMAIN n.defaults THEN [found |-> TRUE, value |-> n.defaults[name]]
    ELSE [found |-> FALSE]

\* The fixed_indent replacement of the newlines of a rendered value;
\* " ".repeat(indent_level) panics (capacity overflow) past isize::MAX.
Reindent(n, var, r) ==
    IF n.fixed_indent /\ var.indent_level # 0
    THEN IF var.indent_level > IsizeMax THEN Panic
         ELSE Ok(ReplaceNewlines(r, <<NL>> \o Spaces(var.indent_level)))
    ELSE Ok(r)

\* The order in which render visits the variables: `.iter().rev()`.
ForwardOrder(count) == [k \in 1..count |-> k]

VisitOrder(count) == [k \in 1..count |-> count + 1 - k]

\* render.push_str(&r) on a List's accumulator.
PushStrWithSeparator(render, r) == render \o <<SP>> \o r

PushStr(render, r) == render \o r

\* The labels of show_labels.
BeginLabel(n, name) ==
    <<n.comment_delimiters[1], SP, "BEGIN", SP>> \o name \o <<SP, n.comment_delimiters[2], NL>>

EndLabel(n, name) ==
    <<n.comment_delimiters[1], SP, "END", SP>> \o name \o <<SP, n.comment_delimiters[2], NL>>

AddLabels(n, name, rendered) ==
    IF n.show_labels THEN BeginLabel(n, name) \o rendered \o EndLabel(n, name)
    ELSE rendered

\* The events a render call leaves behind, in order: a file lookup of index,
\* and the completion of the render of a node with its result (`spliced` is
\* a Template's text after the substitutions, before labels and trimming).
IndexEvent(n, d, template_name, template_index) ==
    [ev |-> "index", name |-> template_name, file |-> FilePath(n, template_name),
     kind |-> template_index.kind,
     read |-> is_file(d, FilePath(n, template_name)),
     contents |-> IF template_index.kind = "Ok" THEN template_index.contents ELSE <<>>]

RenderEvent(tag, res, spliced) ==
    [ev |-> "render", tag |-> tag, res |-> res, spliced |-> spliced]

RECURSIVE render(_, _, _, _)
RECURSIVE RenderList(_, _, _, _, _, _)
RECURSIVE Substitute(_, _, _, _, _, _, _)

\* The body of the loop over a List, after `self.render(f)` gave [res, log]
\* and `?` gave q.
ListPush(n, d, oc, list, k, acc, log, q) ==
    IF q.early THEN [res |-> q.value, log |-> acc.log \o log]
    ELSE RenderList(n, d, oc, list, k + 1,
                    [render |-> PushStr(acc.render, q.value), log |-> acc.log \o log])

ListItem(n, d, oc, list, k, acc, r) ==
    ListPush(n, d, oc, list, k, acc, r.log, Question(r.res))

\* The loop over a List: item k onwards, acc = [render, log].
RenderList(n, d, oc, list, k, acc) ==
    IF k > Len(list) THEN [res |-> Ok(acc.render), log |-> acc.log]
    ELSE ListItem(n, d, oc, list, k, acc, render(n, d, oc, list[k]))

\* rendered.replace_range(var.start_position..var.end_position, ...) gave rr:
\* on to the next variable.
Replaced(n, d, oc, template_hash, template_index, k, acc, log, rr) ==
    IF rr.kind # "Ok" THEN [res |-> Panic, log |-> acc.log \o log]
    ELSE Substitute(n, d, oc, template_hash, template_index, k + 1,
                    [rendered |-> rr.s, log |-> acc.log \o log])

\* The re-indented rendering `ind` of the value replaces the variable.
SubstituteIndented(n, d, oc, template_hash, template_index, k, acc, var, log, ind) ==
    IF ind.kind # "Ok" THEN [res |-> Panic, log |-> acc.log \o log]
    ELSE Replaced(n, d, oc, template_hash, template_index, k, acc, log,
                  replace_range(acc.rendered, var.start_position, var.end_position, ind.s))

\* `self.render(value)?` gave q.
SubstituteQuestion(n, d, oc, template_hash, template_index, k, acc, var, log, q) ==
    IF q.early THEN [res |-> q.value, log |-> acc.log \o log]
    ELSE SubstituteIndented(n, d, oc, template_hash, template_index, k, acc, var, log,
                            Reindent(n, var, q.value))

SubstituteRendered(n, d, oc, template_hash, template_index, k, acc, var, r) ==
    SubstituteQuestion(n, d, oc, template_hash, template_index, k, acc, var,
                       r.log, Question(r.res))

\* A variable without a value is replaced by the empty string.
SubstituteValue(n, d, oc, template_hash, template_index, k, acc, var, value) ==
    IF ~value.found
    THEN Replaced(n, d, oc, template_hash, template_index, k, acc, <<>>,
                  replace_range(acc.rendered, var.start_position, var.end_position, <<>>))
    ELSE SubstituteRendered(n, d, oc, template_hash, template_index, k, acc, var,
                            render(n, d, oc, value.value))

\* The body of the loop over the variables: of an escaped token only the
\* escape prefix is removed.
SubstituteVar(n, d, oc, template_hash, template_index, k, acc, var) ==
    IF var.escaped_token
    THEN Replaced(n, d, oc, template_hash, template_index, k, acc, <<>>,
                  replace_range(acc.rendered, var.start_position, var.end_position, <<>>))
    ELSE SubstituteValue(n, d, oc, template_hash, template_index, k, acc, var,
                         Lookup(n, template_hash, var.name))

\* The loop over the variables of a template: step k of the visit order
\* onwards, acc = [rendered, log].
Substitute(n, d, oc, template_hash, template_index, k, acc) ==
    IF k > Len(template_index.variables) THEN [res |-> Ok(acc.rendered), log |-> acc.log]
    ELSE SubstituteVar(n, d, oc, template_hash, template_index, k, acc,
                       template_index.variables[VisitOrder(Len(template_index.variables))[k]])

\* The labels without the trailing trim.
FinishUntrimmed(n, name, sub) ==
    IF sub.res.kind # "Ok"
    THEN [res |-> sub.res, log |-> sub.log, spliced |-> <<>>]
    ELSE [res |-> Ok(AddLabels(n, name, sub.res.s)),
          log |-> sub.log, spliced |-> sub.res.s]

\* After the loop: the labels and the trailing trim.
Finish(n, name, sub) ==
    IF sub.res.kind # "Ok"
    THEN [res |-> sub.res, log |-> sub.log, spliced |-> <<>>]
    ELSE [res |-> Ok(TrimEnd(AddLabels(n, name, sub.res.s))),
          log |-> sub.log, spliced |-> sub.res.s]

\* The check for bad params after the loop over the variables.
RenderIndexedCheckLast(n, d, oc, template_hash, name, template_index) ==
    IF template_index.kind # "Ok"
    THEN [res |-> template_index,
          log |-> <<IndexEvent(n, d, name, template_index)>>, spliced |-> <<>>]
    ELSE LET sub == Substitute(n, d, oc, template_hash, template_index, 1,
                               [rendered |-> template_index.contents,
                                log |-> <<IndexEvent(n, d, name, template_index)>>])
         IN  IF sub.res.kind # "Ok" THEN Finish(n, name, sub)
             ELSE IF HasBadParams(n, template_hash, template_index)
             THEN [res |-> Err("BadParams"), log |-> sub.log, spliced |-> <<>>]
             ELSE Finish(n, name, sub)

\* After `self.index(name)?`: the check for bad params and the loop.
RenderIndexed(n, d, oc, template_hash, name, template_index) ==
    IF template_index.kind # "Ok"
    THEN [res |-> template_index,
          log |-> <<IndexEvent(n, d, name, template_index)>>, spliced |-> <<>>]
    ELSE IF HasBadParams(n, template_hash, template_index)
    THEN [res |-> Err("BadParams"),
          log |-> <<IndexEvent(n, d, name, template_index)>>, spliced |-> <<>>]
    ELSE Finish(n, name,
                Substitute(n, d, oc, template_hash, template_index, 1,
                           [rendered |-> template_index.contents,
                            log |-> <<IndexEvent(n, d, name, template_index)>>]))

RenderLabelled(n, d, oc, template_hash, template_label) ==
    IF template_label.kind # "Ok"
    THEN [res |-> template_label, log |-> <<>>, spliced |-> <<>>]
    ELSE RenderIndexed(n, d, oc, template_hash, template_label.s,
                       index(n, d, oc, template_label.s))

\* The Filling::Template arm: [res, log, spliced].
RenderTemplate(n, d, oc, template_hash) ==
    RenderLabelled(n, d, oc, template_hash, NameLabel(n, template_hash))

\* A call's result with its event at the end of its log.
Logged(tag, r, spliced) ==
    [res |-> r.res, log |-> Append(r.log, RenderEvent(tag, r.res, spliced))]

LoggedTemplate(r) == Logged("Template", r, r.spliced)

\* TemplateNest::render: [res, log].
render(n, d, oc, filling) ==
    IF filling.tag = "Text"
    THEN [res |-> Ok(filling.text),
          log |-> <<RenderEvent("Text", Ok(filling.text), <<>>)>>]
    ELSE IF filling.tag = "List"
    THEN Logged("List",
                RenderList(n, d, oc, filling.list, 1, [render |-> <<>>, log |-> <<>>]),
                <<>>)
    ELSE LoggedTemplate(RenderTemplate(n, d, oc, filling.map))

(***************************************************************************)
(* The engines, the template files and the fillings of the model.          *)
(***************************************************************************)
LT == "<"
PC == "%"
GT == ">"
BS == "\\"

\* TemplateNest::default, with the two-character delimiters <% and %>.
DefaultNest ==
    [label |-> <<"TEMPLATE">>,
     extension |-> <<"html">>,
     show_labels |-> FALSE,
     fixed_indent |-> FALSE,
     die_on_bad_params |-> FALSE,
     directory |-> <<"templates">>,
     delimiters |-> << <<LT, PC>>, <<PC, GT>> >>,
     comment_delimiters |-> <<"<!--", "-->">>,
     token_escape_char |-> <<>>,
     defaults |-> <<>>]

X == <<"x">>
Y == <<"y">>
Z == <<"z">>
TokX == <<LT, PC, "x", PC, GT>>
TokY == <<LT, PC, "y", PC, GT>>

Nests ==
    {[DefaultNest EXCEPT !.show_labels = sl, !.fixed_indent = fi,
                         !.die_on_bad_params = dp, !.token_escape_char = esc,
                         !.defaults = df] :
        sl \in BOOLEAN, fi \in BOOLEAN, dp \in BOOLEAN,
        esc \in {<<>>, <<BS>>},
        df \in {<<>>, Y :> Text(<<"d", NL, "d">>)}}

\* Template files of the page "p".
PageNoToken == <<"a", NL>>
PageTwoTokens == <<"a">> \o TokX \o <<"b">> \o TokY \o <<"c">>
PageTokenFirst == TokX \o <<"a", NL>>
PageEscapeFirst == <<BS>> \o TokX \o <<"a">>
PageEscapeInside == <<"a", BS>> \o TokX \o TokY
PageIndented == <<"a", NL, SP>> \o TokX \o <<SP, NL>>
PageFirstLine == <<SP>> \o TokX \o <<LT, PC, SP, "y", SP, PC, GT>>

PageContents ==
    {PageNoToken, PageTwoTokens, PageTokenFirst, PageEscapeFirst,
     PageEscapeInside, PageIndented, PageFirstLine}

\* Template files of the component "c".
CompLines == <<"b", NL, "b", NL>>
CompToken == TokY \o <<"b">>

P == <<"p">>
C == <<"c">>
Missing == <<"n">>

File(contents) == [readable |-> TRUE, contents |-> contents]
Unreadable == [readable |-> FALSE, contents |-> <<>>]

PathOf(template_name) == FilePath(DefaultNest, template_name)

Disks ==
    {(PathOf(P) :> File(pc)) @@ (PathOf(C) :> File(CompLines)) : pc \in PageContents}
    \cup {(PathOf(P) :> File(PageTwoTokens)) @@ (PathOf(C) :> File(CompToken)),
          (PathOf(P) :> File(PageTwoTokens)) @@ (PathOf(C) :> Unreadable),
          (PathOf(P) :> File(PageTwoTokens))}

\* Text values: shorter than, as long as and longer than a token, empty,
\* of several lines, and with trailing whitespace.
Repeat(c, count) == [k \in 1..count |-> c]

TextValues ==
    {Repeat("v", Len(TokX) + pad) : pad \in (0 - MaxPad)..MaxPad}
    \cup {<<>>, <<"v", NL, "v">>, <<"v", SP>>}

Leaves == {Text(t) : t \in TextValues}

LabelOf(template_name) == DefaultNest.label :> Text(template_name)

Comp == Template(LabelOf(C))
NoLabel == Template(Y :> Comp)
Components ==
    {Comp,
     Template(LabelOf(C) @@ (Y :> Text(<<"w">>))),
     NoLabel,
     Template((DefaultNest.label :> List(<<>>)) @@ (Y :> Comp)),
     Template((DefaultNest.label :> Comp)),
     Template(LabelOf(Missing))}

\* The lists of up to MaxListLen items.
ListItems == {Text(<<"v">>), Comp, NoLabel}

RECURSIVE SeqsUpTo(_, _)
SeqsUpTo(S, len) ==
    IF len = 0 THEN {<<>>}
    ELSE LET shorter == SeqsUpTo(S, len - 1)
         IN  shorter \cup {Append(q, e) : q \in {r \in shorter : Len(r) = len - 1}, e \in S}

Lists == {List(l) : l \in SeqsUpTo(ListItems, MaxListLen)}

\* A page: the label and any of x, y, z.
Optional(key, values) == {<<>>} \cup {key :> v : v \in values}

Pages ==
    {Template(LabelOf(P) @@ x @@ y @@ z) :
        x \in Optional(X, Leaves \cup Components \cup {List(<<Comp, Comp>>)}),
        y \in Optional(Y, {Text(<<"w">>)}),
        z \in Optional(Z, {Text(<<"w">>)})}

Fillings == Leaves \cup Components \cup Lists \cup Pages

(***************************************************************************)
(* The state machine: an engine, the disk, and the last operation.         *)
(***************************************************************************)
NoOp(op) ==
    [op |-> op, filling |-> Text(<<>>), overflow_checks |-> FALSE,
     res |-> Ok(<<>>), log |-> <<>>, refreshed |-> {}, reread |-> {}]

Init ==
    /\ nest \in Nests
    /\ disk \in Disks
    /\ seen = <<>>
    /\ last = NoOp("new")

\* The files an index call of the log read.
FilesRead(log) ==
    {log[k].file : k \in {j \in 1..Len(log) : log[j].ev = "index" /\ log[j].kind = "Ok"}}

ContentsRead(log, file) ==
    LET k == CHOOSE j \in 1..Len(log) :
                log[j].ev = "index" /\ log[j].kind = "Ok" /\ log[j].file = file
    IN  log[k].contents

\* The record of a render call that gave r: `refreshed` are the files it read
\* that an earlier render had read with other contents, `reread` those an
\* earlier render had read with the same contents.
RenderOp(filling, overflow_checks, r) ==
    [op |-> "render", filling |-> filling,
     overflow_checks |-> overflow_checks,
     res |-> r.res, log |-> r.log,
     refreshed |-> {f \in FilesRead(r.log) \cap DOMAIN seen : seen[f] # disk[f].contents},
     reread |-> {f \in FilesRead(r.log) \cap DOMAIN seen : seen[f] = disk[f].contents}]

\* nest.render(&filling), in a build with or without overflow checks.
RenderStep(filling, overflow_checks) ==
    /\ last' = RenderOp(filling, overflow_checks,
                        render(nest, disk, overflow_checks, filling))
    /\ UNCHANGED <<nest, disk>>

Render(filling, overflow_checks) ==
    /\ RenderStep(filling, overflow_checks)
    /\ UNCHANGED seen

\* A behaviour of Spec is one render call on a newly constructed engine:
\* render takes &self and keeps no state between calls.
Next ==
    \E filling \in Fillings, overflow_checks \in BOOLEAN :
        last.op = "new" /\ Render(filling, overflow_checks)

Spec == Init /\ [][Next]_vars

(***************************************************************************)
(* Renders interleaved with modifications of the template files.  `seen`   *)
(* records, for every file a render has read, the contents it read last.   *)
(***************************************************************************)
FileNests ==
    {n \in Nests : n.token_escape_char = <<>> /\ n.defaults = <<>> /\ ~n.die_on_bad_params}

FileFillings ==
    {Text(<<"v">>),
     Comp,
     List(<<Comp, Comp>>),
     Template(LabelOf(P)),
     Template(LabelOf(P) @@ (X :> Text(<<"v">>))),
     Template(LabelOf(P) @@ (X :> Comp) @@ (Y :> Text(<<"w">>)))}

WriteContents(file) ==
    IF file = PathOf(P) THEN {PageTwoTokens, PageTokenFirst, PageNoToken}
    ELSE {CompLines, CompToken}

InitFiles ==
    /\ nest \in FileNests
    /\ disk = (PathOf(P) :> File(PageTwoTokens)) @@ (PathOf(C) :> File(CompLines))
    /\ seen = <<>>
    /\ last = NoOp("new")

\* A render, after which `seen` holds what the render read.
RenderAndRecord(filling, overflow_checks) ==
    /\ RenderStep(filling, overflow_checks)
    /\ seen' = [file \in DOMAIN seen \cup FilesRead(last'.log) |->
                   IF file \in FilesRead(last'.log) THEN ContentsRead(last'.log, file)
                   ELSE seen[file]]

\* The environment replaces the contents of a template file.
WriteFile(file, contents) ==
    /\ is_file(disk, file)
    /\ disk[file].contents # contents
    /\ disk' = [disk EXCEPT ![file] = File(contents)]
    /\ last' = NoOp("write")
    /\ UNCHANGED <<nest, seen>>

NextFiles ==
    \/ \E filling \in FileFillings, overflow_checks \in BOOLEAN :
          RenderAndRecord(filling, overflow_checks)
    \/ \E file \in {PathOf(P), PathOf(C)} :
          \E contents \in WriteContents(file) : WriteFile(file, contents)

SpecFiles == InitFiles /\ [][NextFiles]_vars

(***************************************************************************)
(* index alone, on every text of up to MaxChunks chunks: a token, a        *)
(* delimiter, a name character, a space, a newline or a backslash.  The    *)
(* escape prefix is empty, a backslash, or the last character of the end   *)
(* delimiter.                                                              *)
(***************************************************************************)
IndexChunks == {TokX, <<LT, PC>>, <<PC, GT>>, X, <<SP>>, <<NL>>, <<BS>>}

IndexTexts == {Concat(q) : q \in SeqsUpTo(IndexChunks, MaxChunks)}

IndexNests ==
    {[DefaultNest EXCEPT !.fixed_indent = fi, !.token_escape_char = esc] :
        fi \in BOOLEAN, esc \in {<<>>, <<BS>>, <<GT>>}}

InitIndex ==
    /\ nest \in IndexNests
    /\ disk \in {PathOf(P) :> File(contents) : contents \in IndexTexts}
    /\ seen = <<>>
    /\ last = NoOp("new")

\* The record of an index call that gave template_index.
IndexOp(overflow_checks, template_index) ==
    [NoOp("index") EXCEPT !.overflow_checks = overflow_checks, !.res = template_index]

\* self.index("p"), in a build with or without overflow checks.
Index(overflow_checks) ==
    /\ last.op = "new"
    /\ last' = IndexOp(overflow_checks, index(nest, disk, overflow_checks, P))
    /\ UNCHANGED <<nest, disk, seen>>

NextIndex == \E overflow_checks \in BOOLEAN : Index(overflow_checks)

SpecIndex == InitIndex /\ [][NextIndex]_vars

(***************************************************************************)
(* Renders with the extension "html" or the empty extension, in            *)
(* directories that hold the page and the component under any of the names *)
(* n, n. and n.html.                                                       *)
(***************************************************************************)
PathNests ==
    {[DefaultNest EXCEPT !.extension = ext, !.show_labels = sl] :
        ext \in {<<"html">>, <<>>}, sl \in BOOLEAN}

\* The names a template may have in the directory.
PathNames(template_name) ==
    {DefaultNest.directory \o <<"/">> \o template_name \o suffix :
        suffix \in {<<>>, <<".">>, <<".", "h", "t", "m", "l">>}}

PathDisks ==
    {[file \in ps \cup cs |-> IF file \in ps THEN File(PageTwoTokens) ELSE File(CompLines)] :
        ps \in SUBSET PathNames(P), cs \in SUBSET PathNames(C)}

PathFillings ==
    {Comp,
     List(<<Comp, Comp>>),
     Template(LabelOf(P)),
     Template(LabelOf(P) @@ (X :> Comp)),
     Template(LabelOf(P) @@ (X :> List(<<Text(<<"v">>), Comp>>)))}

InitPaths ==
    /\ nest \in PathNests
    /\ disk \in PathDisks
    /\ seen = <<>>
    /\ last = NoOp("new")

NextPaths ==
    \E filling \in PathFillings, overflow_checks \in BOOLEAN :
        last.op = "new" /\ Render(filling, overflow_checks)

SpecPaths == InitPaths /\ [][NextPaths]_vars

(***************************************************************************)
(* Properties.                                                             *)
(***************************************************************************)
Rendered == last.op = "render"
RenderedOk == Rendered /\ last.res.kind = "Ok"
RenderedTemplate == Rendered /\ last.filling.tag = "Template"

\* The event of the top-level call: the last of the log.
TopEvent == last.log[Len(last.log)]

\* The template hash of the last call, its template name and the index of
\* that template's file.
LastHash == last.filling.map
LastName == LastHash[nest.label].text
LastIndex == index(nest, disk, last.overflow_checks, LastName)

\* The reference splice: the literal segments between the spans, in file
\* order, each followed by the span's substitution.
RECURSIVE SpliceFrom(_, _, _, _, _)
SpliceFrom(contents, variables, subs, k, pos) ==
    IF k > Len(variables) THEN Slice(contents, pos, Len(contents))
    ELSE Slice(contents, pos, variables[k].start_position) \o subs[k]
         \o SpliceFrom(contents, variables, subs, k + 1, variables[k].end_position)

Splice(contents, variables, subs) == SpliceFrom(contents, variables, subs, 1, 0)

\* The substitution of a span: nothing for an escape prefix and for a token
\* without a value, else the rendering of the token's value (re-indented
\* under fixed_indent, as render does before it replaces the span).
SubstitutionOf(template_hash, var) ==
    IF var.escaped_token THEN <<>>
    ELSE LET value == Lookup(nest, template_hash, var.name)
         IN  IF ~value.found THEN <<>>
             ELSE Reindent(nest, var,
                           render(nest, disk, last.overflow_checks, value.value).res.s).s

Substitutions(template_hash, variables) ==
    [k \in 1..Len(variables) |-> SubstitutionOf(template_hash, variables[k])]

\* C1: a successful render of a Template, before the labels and the trailing
\* trim, is the reference splice lit_0 + sub_1 + lit_1 + ... + sub_N + lit_N of
\* the template's literal segments and the renderings of the tokens' values,
\* whatever the lengths of the substitutions.
C1_RenderIsSplice ==
    (RenderedTemplate /\ RenderedOk) =>
        TopEvent.spliced =
            Splice(LastIndex.contents, LastIndex.variables,
                   Substitutions(LastHash, LastIndex.variables))

\* A render of two tokens, the first replaced by a longer text and the
\* second by a shorter one.
C1_Witness ==
    /\ RenderedTemplate /\ RenderedOk
    /\ LET variables == LastIndex.variables
           subs == Substitutions(LastHash, variables)
       IN  /\ Len(variables) = 2
           /\ ~variables[1].escaped_token /\ ~variables[2].escaped_token
           /\ Len(subs[1]) > variables[1].end_position - variables[1].start_position
           /\ Len(subs[2]) < variables[2].end_position - variables[2].start_position
           /\ Len(subs[2]) > 0

\* C2: a Template without the label fails with NoNameLabel, and one whose
\* label is a List or a Template fails with InvalidNameLabel, whatever its
\* other entries are; no file was looked up, no child was rendered and no
\* text was produced: the log holds the failed call alone.
C2_NameLabelFailsFirst ==
    RenderedTemplate =>
        /\ nest.label \notin DOMAIN LastHash =>
              /\ last.res = Err("NoNameLabel")
              /\ last.log = <<RenderEvent("Template", Err("NoNameLabel"), <<>>)>>
        /\ (nest.label \in DOMAIN LastHash /\ LastHash[nest.label].tag # "Text") =>
              /\ last.res = Err("InvalidNameLabel")
              /\ last.log = <<RenderEvent("Template", Err("InvalidNameLabel"), <<>>)>>

\* A hash whose label is a List and which holds a renderable component.
C2_Witness ==
    /\ RenderedTemplate
    /\ nest.label \in DOMAIN LastHash
    /\ LastHash[nest.label].tag = "List"
    /\ Y \in DOMAIN LastHash /\ LastHash[Y] = Comp
    /\ last.res = Err("InvalidNameLabel")

\* C3: an error of any node the walk reached is the result of the top-level
\* call, and the top-level call is Ok only if every node it reached is.
C3_ErrorsPropagate ==
    Rendered =>
        /\ \A k \in 1..Len(last.log) :
              (last.log[k].ev = "render" /\ last.log[k].res.kind = "Err")
                  => last.res = last.log[k].res
        /\ last.res.kind = "Ok" =>
              \A k \in 1..Len(last.log) :
                  IF last.log[k].ev = "render" THEN last.log[k].res.kind = "Ok"
                  ELSE last.log[k].kind = "Ok"

\* A page whose token holds a list whose item failed: the error of the item
\* is the error of the list and of the page.
C3_Witness ==
    /\ RenderedTemplate
    /\ last.res.kind = "Err"
    /\ \E k \in 1..Len(last.log) :
          /\ last.log[k].ev = "render" /\ last.log[k].tag = "List"
          /\ last.log[k].res = last.res
          /\ k > 1 /\ last.log[k - 1].ev = "render" /\ last.log[k - 1].res = last.res

\* The keys of the last hash that are neither the label nor a variable of
\* the template.
ExtraKeys ==
    {key \in DOMAIN LastHash : key # nest.label /\ key \notin LastIndex.variable_names}

WithoutKey(template_hash, key) ==
    [k \in DOMAIN template_hash \ {key} |-> template_hash[k]]

\* C4: a hash with a key that is neither the label nor a token of the
\* resolved template fails with BadParams under die_on_bad_params; without
\* die_on_bad_params its result is the result of the hash without that key.
C4_BadParams ==
    (/\ RenderedTemplate
     /\ NameLabel(nest, LastHash).kind = "Ok"
     /\ LastIndex.kind = "Ok"
     /\ ExtraKeys # {}) =>
        IF nest.die_on_bad_params THEN last.res = Err("BadParams")
        ELSE \A key \in ExtraKeys :
                last.res = render(nest, disk, last.overflow_checks,
                                  Template(WithoutKey(LastHash, key))).res

\* A hash with values for the tokens and the key z, which no template has.
C4_Witness ==
    /\ RenderedTemplate
    /\ nest.die_on_bad_params
    /\ {nest.label, X, Y, Z} \subseteq DOMAIN LastHash
    /\ LastHash[nest.label] = Text(P)
    /\ LastIndex.kind = "Ok"
    /\ ExtraKeys = {Z}
    /\ last.res = Err("BadParams")

\* The file of the last hash's template, and its tokens (the index without
\* overflow checks, which never panics).
LastFile == FilePath(nest, LastName)
LastTokens == IndexContents(nest, disk[LastFile].contents, FALSE).variables

\* The last hash names a readable template file, passes the check for bad
\* params, and every value it gives a token renders.
LastHashRenderable ==
    /\ RenderedTemplate
    /\ NameLabel(nest, LastHash).kind = "Ok"
    /\ is_file(disk, LastFile) /\ disk[LastFile].readable
    /\ ~HasBadParams(nest, LastHash, IndexContents(nest, disk[LastFile].contents, FALSE))
    /\ \A k \in 1..Len(LastTokens) :
          LET value == Lookup(nest, LastHash, LastTokens[k].name)
          IN  (~LastTokens[k].escaped_token /\ value.found) =>
                 render(nest, disk, last.overflow_checks, value.value).res.kind = "Ok"

\* C5: when the template has a token X for which the hash has no entry and
\* no default exists, the render succeeds and X's span is replaced by the
\* empty string, the other tokens substituted as usual.
C5_MissingTokenIsEmpty ==
    (/\ LastHashRenderable
     /\ \E k \in 1..Len(LastTokens) :
           /\ ~LastTokens[k].escaped_token
           /\ ~Lookup(nest, LastHash, LastTokens[k].name).found) =>
        /\ RenderedOk
        /\ TopEvent.spliced =
              Splice(disk[LastFile].contents, LastTokens,
                     [k \in 1..Len(LastTokens) |->
                         IF Lookup(nest, LastHash, LastTokens[k].name).found
                         THEN SubstitutionOf(LastHash, LastTokens[k])
                         ELSE <<>>])

PrecededByEscape(contents, start_position) ==
    /\ start_position >= Len(nest.token_escape_char)
    /\ Slice(contents, start_position - Len(nest.token_escape_char), start_position)
          = nest.token_escape_char

\* The spans C7 expects: the escape prefix of every escaped occurrence, and
\* the other occurrences whole.
ExpectedVariables(contents) ==
    LET caps == captures_iter(nest, contents, 0)
    IN  [k \in 1..Len(caps) |->
            IF PrecededByEscape(contents, caps[k].start)
            THEN [indent_level |-> 0, name |-> <<>>, escaped_token |-> TRUE,
                  start_position |-> caps[k].start - Len(nest.token_escape_char),
                  end_position |-> caps[k].start]
            ELSE Variable(nest, contents, caps[k], last.overflow_checks)]

\* C7: with an escape prefix configured, every occurrence preceded by the
\* prefix is rendered as its delimited text without the prefix, wherever it
\* is in the file and whether or not the hash has a value for its name; the
\* other occurrences are substituted.
C7_EscapedTokenKept ==
    (RenderedTemplate /\ RenderedOk /\ nest.token_escape_char # <<>>) =>
        TopEvent.spliced =
            Splice(LastIndex.contents, ExpectedVariables(LastIndex.contents),
                   Substitutions(LastHash, ExpectedVariables(LastIndex.contents)))

\* The lines of a text, and the text of lines.
RECURSIVE SplitLines(_)
SplitLines(s) ==
    IF \A k \in 1..Len(s) : s[k] # NL THEN <<s>>
    ELSE LET k == CHOOSE j \in 1..Len(s) : s[j] = NL /\ \A i \in 1..(j - 1) : s[i] # NL
         IN  <<SubSeq(s, 1, k - 1)>> \o SplitLines(SubSeq(s, k + 1, Len(s)))

RECURSIVE JoinLines(_)
JoinLines(lines) ==
    IF Len(lines) = 0 THEN <<>>
    ELSE IF Len(lines) = 1 THEN lines[1]
    ELSE lines[1] \o <<NL>> \o JoinLines(Tail(lines))

\* A hash whose values are all Text: no nested template adds labels.
FlatHash == \A key \in DOMAIN LastHash : LastHash[key].tag = "Text"

\* C8: the output with show_labels is the line `<open> BEGIN <name> <close>`,
\* the output without show_labels, and the line `<open> END <name> <close>`:
\* without those two lines it is the output rendered with show_labels
\* disabled, byte for byte.  Stated for the hashes whose values are all Text.
C8_LabelsAreTwoLines ==
    (RenderedTemplate /\ RenderedOk /\ nest.show_labels /\ FlatHash) =>
        LET lines == SplitLines(last.res.s)
            plain == render([nest EXCEPT !.show_labels = FALSE], disk,
                            last.overflow_checks, last.filling).res.s
        IN  /\ Len(lines) >= 2
            /\ lines[1] \o <<NL>> = BeginLabel(nest, LastName)
            /\ lines[Len(lines)] \o <<NL>> = EndLabel(nest, LastName)
            /\ JoinLines(SubSeq(lines, 2, Len(lines) - 1)) = plain

\* The renderings of the items of a list.
ItemResults(list) ==
    [k \in 1..Len(list) |-> render(nest, disk, last.overflow_checks, list[k]).res]

\* C9: a List of renderable items renders to the renderings of its items,
\* in order and without a separator; the empty List renders to the empty
\* string.
C9_ListConcatenates ==
    (/\ Rendered /\ last.filling.tag = "List"
     /\ \A k \in 1..Len(last.filling.list) :
           ItemResults(last.filling.list)[k].kind = "Ok") =>
        last.res =
            Ok(Concat([k \in 1..Len(last.filling.list) |->
                          ItemResults(last.filling.list)[k].s]))

\* A list of two items with different, non-empty renderings.
C9_Witness ==
    /\ Rendered /\ last.filling.tag = "List"
    /\ Len(last.filling.list) = 2
    /\ RenderedOk
    /\ last.filling.list[1].tag = "Text" /\ last.filling.list[2].tag = "Template"
    /\ ItemResults(last.filling.list)[1].s # <<>>
    /\ ItemResults(last.filling.list)[2].s # <<>>
    /\ ItemResults(last.filling.list)[1].s # ItemResults(last.filling.list)[2].s

\* C10: a render reads the current contents of every template file it
\* resolves, also of a file an earlier render used and that was changed
\* since, and its output is built from these contents.
C10_RenderUsesCurrentFile ==
    Rendered =>
        /\ \A k \in 1..Len(last.log) :
              (last.log[k].ev = "index" /\ last.log[k].kind = "Ok")
                  => last.log[k].contents = disk[last.log[k].file].contents
        /\ (RenderedTemplate /\ RenderedOk) =>
              TopEvent.spliced =
                  Splice(disk[LastFile].contents, LastTokens,
                         Substitutions(LastHash, LastTokens))

\* A successful render of a page whose file and whose component's file an
\* earlier render used and were changed since.
C10_Witness ==
    /\ RenderedTemplate /\ RenderedOk
    /\ last.refreshed = {PathOf(P), PathOf(C)}
    /\ TopEvent.spliced # <<>>

\* The reads of a file in the log of the last call.
ReadsOf(file) ==
    {k \in 1..Len(last.log) :
        last.log[k].ev = "index" /\ last.log[k].read /\ last.log[k].file = file}

\* C11: a render reads a template file only when no earlier resolution has
\* indexed it or when the file was changed since; a file an earlier render
\* read and that is unchanged is not read again, and a file two nodes of the
\* same tree resolve is read once.
C11_ReadOnlyWhenNewOrChanged ==
    Rendered =>
        /\ last.reread = {}
        /\ \A file \in DOMAIN disk : Cardinality(ReadsOf(file)) <= 1

\* C12: under die_on_bad_params the check for bad params runs after the
\* template is resolved and before any token is substituted or any child is
\* rendered: a missing file of the node is TemplateFileNotFound, not
\* BadParams, and a hash with an unmatched key fails with BadParams with no
\* child rendered, also when a value of one of its tokens would fail.
C12_BadParamsBeforeSubstitution ==
    (/\ RenderedTemplate
     /\ nest.die_on_bad_params
     /\ NameLabel(nest, LastHash).kind = "Ok") =>
        /\ ~is_file(disk, LastFile) =>
              /\ last.res = Err("TemplateFileNotFound")
              /\ Len(last.log) = 2 /\ last.log[1].ev = "index"
        /\ (is_file(disk, LastFile) /\ LastIndex.kind = "Ok" /\ ExtraKeys # {}) =>
              /\ last.res = Err("BadParams")
              /\ Len(last.log) = 2 /\ last.log[1].ev = "index"
              /\ TopEvent.spliced = <<>>

\* A hash with an unmatched key and a token whose value fails to render.
C12_Witness ==
    /\ RenderedTemplate
    /\ nest.die_on_bad_params
    /\ NameLabel(nest, LastHash).kind = "Ok"
    /\ LastIndex.kind = "Ok"
    /\ ExtraKeys # {}
    /\ \E k \in 1..Len(LastIndex.variables) :
          /\ ~LastIndex.variables[k].escaped_token
          /\ LastIndex.variables[k].name \in DOMAIN LastHash
          /\ render(nest, disk, last.overflow_checks,
                    LastHash[LastIndex.variables[k].name]).res.kind = "Err"
    /\ last.res = Err("BadParams")

\* The last operation was an index call that gave an index.
Indexed == last.op = "index"
IndexedOk == Indexed /\ last.res.kind = "Ok"

\* C13: the spans of an index, escaped or not, lie inside the contents, are
\* in strictly ascending order of start and do not overlap, whatever the
\* text and the escape prefix are.
C13_SpansOrderedAndDisjoint ==
    IndexedOk =>
        /\ \A k \in 1..Len(last.res.variables) :
              /\ 0 <= last.res.variables[k].start_position
              /\ last.res.variables[k].start_position <= last.res.variables[k].end_position
              /\ last.res.variables[k].end_position <= Len(last.res.contents)
        /\ \A k \in 1..(Len(last.res.variables) - 1) :
              /\ last.res.variables[k].start_position
                    < last.res.variables[k + 1].start_position
              /\ last.res.variables[k].end_position
                    <= last.res.variables[k + 1].start_position

\* The column of an offset: the number of bytes between the nearest newline
\* before it, or the start of the text when there is none, and the offset.
Column(contents, start_position) ==
    IF \E k \in 0..(start_position - 1) : contents[k + 1] = NL
    THEN start_position - newline_position(contents, start_position) - 1
    ELSE start_position

\* The substitution C14 expects: the rendering of the value with every
\* newline followed by as many spaces as the column of the token.
ColumnSubstitutionOf(template_hash, contents, var) ==
    IF var.escaped_token THEN <<>>
    ELSE LET value == Lookup(nest, template_hash, var.name)
         IN  IF ~value.found THEN <<>>
             ELSE ReplaceNewlines(
                      render(nest, disk, last.overflow_checks, value.value).res.s,
                      <<NL>> \o Spaces(Column(contents, var.start_position)))

\* C14: under fixed_indent the indent level of every token is the column of
\* its opening delimiter, also on the first line, and in the output every
\* newline of the token's substitution is followed by that many spaces (none
\* at column 0).
C14_IndentIsColumn ==
    (RenderedTemplate /\ RenderedOk /\ nest.fixed_indent) =>
        /\ \A k \in 1..Len(LastIndex.variables) :
              ~LastIndex.variables[k].escaped_token =>
                  LastIndex.variables[k].indent_level
                      = Column(LastIndex.contents, LastIndex.variables[k].start_position)
        /\ TopEvent.spliced =
              Splice(LastIndex.contents, LastIndex.variables,
                     [k \in 1..Len(LastIndex.variables) |->
                         ColumnSubstitutionOf(LastHash, LastIndex.contents,
                                              LastIndex.variables[k])])

\* A text without trailing whitespace.
NoTrailingWhitespace(s) == s = <<>> \/ ~IsWhitespace(s[Len(s)])

\* `out` is `text` without some trailing whitespace: the rest is kept.
OnlyTrailingRemoved(out, text) ==
    /\ Len(out) <= Len(text)
    /\ out = SubSeq(text, 1, Len(out))
    /\ \A k \in (Len(out) + 1)..Len(text) : IsWhitespace(text[k])

\* C15: the string a successful render of a Template returns, at any depth
\* and under every configuration, has no trailing whitespace, and it is the
\* working text (with its labels under show_labels) without trailing
\* whitespace only: leading whitespace is kept.
C15_TrailingWhitespaceTrimmed ==
    Rendered =>
        \A k \in 1..Len(last.log) :
            (/\ last.log[k].ev = "render"
             /\ last.log[k].tag = "Template"
             /\ last.log[k].res.kind = "Ok") =>
                /\ NoTrailingWhitespace(last.log[k].res.s)
                /\ \E name \in {P, C} :
                      OnlyTrailingRemoved(last.log[k].res.s,
                                          AddLabels(nest, name, last.log[k].spliced))

\* A page whose last token has a value that ends with a space and is
\* followed by whitespace alone: the output ends with the value's "v".
C15_Witness ==
    /\ RenderedTemplate /\ RenderedOk
    /\ ~nest.show_labels
    /\ LastIndex.contents = PageIndented
    /\ X \in DOMAIN LastHash /\ LastHash[X] = Text(<<"v", SP>>)
    /\ TopEvent.spliced = <<"a", NL, SP, "v", SP, SP, NL>>
    /\ last.res.s = <<"a", NL, SP, "v">>

\* The offsets index computes for the occurrence at `cap`, as integers: the
\* start of the look-behind when the look-behind is made, and the indent
\* level when it is computed.
LookBehindStart(n, cap) ==
    IF n.token_escape_char # <<>> /\ cap.start > Len(n.token_escape_char)
    THEN cap.start - Len(n.token_escape_char)
    ELSE 0

IndentDifference(n, contents, cap) ==
    IF n.fixed_indent /\ ~IsEscaped(n, contents, cap.start)
    THEN cap.start - newline_position(contents, cap.start) - 1
    ELSE 0

\* C16: index computes no negative offset, whatever the text, the start of
\* a token and the configuration are: the start of the escape look-behind
\* and the indent level are both at least 0, and index returns an index.
C16_NoUnderflow ==
    Indexed =>
        /\ last.res.kind = "Ok"
        /\ \A k \in 1..Len(captures_iter(nest, disk[PathOf(P)].contents, 0)) :
              /\ LookBehindStart(nest,
                     captures_iter(nest, disk[PathOf(P)].contents, 0)[k]) >= 0
              /\ IndentDifference(nest, disk[PathOf(P)].contents,
                     captures_iter(nest, disk[PathOf(P)].contents, 0)[k]) >= 0

\* The tokens of the last index, and the interior of a token: the text
\* between its delimiters.
IndexedTokens ==
    {k \in 1..Len(last.res.variables) : ~last.res.variables[k].escaped_token}

InteriorStart(var) == var.start_position + Len(nest.delimiters[1])
InteriorEnd(var) == var.end_position - Len(nest.delimiters[2])
Interior(var) == Slice(last.res.contents, InteriorStart(var), InteriorEnd(var))

\* The end delimiters that start at or after an offset and before another.
EndDelimitersIn(from, to) ==
    {j \in from..(to - 1) : StartsAt(last.res.contents, j, nest.delimiters[2])}

\* C17 as stated: every token starts at a start delimiter and ends with the
\* first end delimiter that follows the start delimiter, so its interior
\* holds no end delimiter, also when the end delimiter follows at once; the
\* name is the interior without surrounding whitespace.
C17_FirstEndDelimiterCloses ==
    IndexedOk =>
        \A k \in IndexedTokens :
            /\ StartsAt(last.res.contents, last.res.variables[k].start_position,
                        nest.delimiters[1])
            /\ StartsAt(last.res.contents, InteriorEnd(last.res.variables[k]),
                        nest.delimiters[2])
            /\ EndDelimitersIn(InteriorStart(last.res.variables[k]),
                               InteriorEnd(last.res.variables[k])) = {}
            /\ last.res.variables[k].name = Trim(Interior(last.res.variables[k]))

\* C17, amended: the interior of a token has at least one character and no
\* newline, and the token ends with the first end delimiter that starts
\* after the first character of the interior: an end delimiter that follows
\* the start delimiter at once is part of the interior.  The name is the
\* interior without surrounding whitespace.
C17_FirstEndDelimiterAfterOneChar ==
    IndexedOk =>
        \A k \in IndexedTokens :
            /\ StartsAt(last.res.contents, last.res.variables[k].start_position,
                        nest.delimiters[1])
            /\ StartsAt(last.res.contents, InteriorEnd(last.res.variables[k]),
                        nest.delimiters[2])
            /\ Len(Interior(last.res.variables[k])) >= 1
            /\ \A c \in 1..Len(Interior(last.res.variables[k])) :
                  Interior(last.res.variables[k])[c] # NL
            /\ EndDelimitersIn(InteriorStart(last.res.variables[k]) + 1,
                               InteriorEnd(last.res.variables[k])) = {}
            /\ last.res.variables[k].name = Trim(Interior(last.res.variables[k]))

\* A token whose start delimiter is followed by an end delimiter at once,
\* and that ends with a later end delimiter.
C17_Witness ==
    /\ IndexedOk
    /\ \E k \in IndexedTokens :
          /\ StartsAt(last.res.contents, InteriorStart(last.res.variables[k]),
                      nest.delimiters[2])
          /\ InteriorEnd(last.res.variables[k]) > InteriorStart(last.res.variables[k])
          /\ last.res.variables[k].name # <<>>

\* The file C18 expects for a template name: directory/n.extension, and
\* directory/n when the extension is empty.
ExpectedPath(n, template_name) ==
    IF n.extension = <<>> THEN n.directory \o <<"/">> \o template_name
    ELSE n.directory \o <<"/">> \o template_name \o <<".">> \o n.extension

\* C18: a template name n is looked up at directory/n.extension, at
\* directory/n when the extension is empty; the lookup fails with
\* TemplateFileNotFound exactly when no file is at that path, and this error
\* is the result of the top-level call from any depth.
C18_PathResolution ==
    Rendered =>
        \A k \in 1..Len(last.log) :
            last.log[k].ev = "index" =>
                /\ last.log[k].file = ExpectedPath(nest, last.log[k].name)
                /\ ~last.log[k].read <=> ~is_file(disk, ExpectedPath(nest, last.log[k].name))
                /\ ~last.log[k].read => last.res = Err("TemplateFileNotFound")

====
